---- MODULE Spec2Model ----
(***************************************************************************)
(* Model of nekoton-jni/src/lib.rs: the JNI entry points of the nekoton     *)
(* binding.  Every entry point is a function of its arguments and of the    *)
(* outcome of the one JNI allocation it makes (env.new_string or            *)
(* env.byte_array_from_slice); the only process-wide state the library      *)
(* touches is the logger installed by initialize().                         *)
(*                                                                          *)
(* The host is modelled as a caller that issues one entry-point call per    *)
(* step.  Besides the library's state the model keeps the host's record of  *)
(* the calls made so far (which handles were returned, which were passed    *)
(* to a cleanup, which builders were built, how many bits each builder      *)
(* accepted): the properties of a handle API are statements about such      *)
(* call histories.                                                          *)
(***************************************************************************)
EXTENDS Integers, Sequences, FiniteSets, TLC

\* ---------------------------------------------------------------- bounds
\* Calls the host makes in one run, over all entry points.
MaxCalls == 3
\* Calls the host makes in one run, over the entry points of the handle API.
MaxHandleCalls == 4
\* Calls the caller threads make in one run.
MaxThreadCalls == 3
\* Largest byte array handed to cellBuilderStoreBytes (128 bytes = 1024 bits).
MaxDataBytes == 128
\* Word counts requested from generateBip39Mnemonic range over 0..MaxWordCount.
MaxWordCount == 24
\* Bytes of secrets and messages range over 0..MaxByte; keys and signatures
\* are filled with 0 or MaxByte.
MaxByte == 1
\* Signature ids range over 0..MaxSigId.
MaxSigId == 1
\* Caller threads of the concurrent specification.
MaxThreads == 2

\* ------------------------------------------------- values crossing the JNI
\* vec![b; n] / [b; n]
ByteArray(n, b) == [i \in 1..n |-> b]

JString(s)     == <<"jstring", s>>
JByteArr(bs)   == <<"jbyteArray", bs>>
JLong(n)       == <<"jlong", n>>
JBoolean(b)    == <<"jboolean", b>>
JVoid          == <<"void">>
\* std::ptr::null_mut()
NullPtr        == <<"null">>
\* An unwinding panic leaving an extern "C" function (no entry point has one).
Panic          == <<"panic">>

IsNull(r)      == r[1] = "null"
IsPanic(r)     == r[1] = "panic"
\* A handle-returning entry point has no null to return: 0 or a negative value
\* is the only marker left to it.
Failed(r) ==
    \/ r[1] = "null"
    \/ r[1] = "jboolean" /\ r[2] = FALSE
    \/ r[1] = "jlong" /\ r[2] <= 0

\* match env.new_string(x) { Ok(s) => s.into_raw(), Err(_) => null_mut() }
NewStringOrNull(ok, s) == IF ok THEN JString(s) ELSE NullPtr
\* match env.byte_array_from_slice(x) { Ok(arr) => arr.into_raw(), Err(_) => null_mut() }
ByteArrayOrNull(ok, bs) == IF ok THEN JByteArr(bs) ELSE NullPtr

\* A string as the sequence of its words and the spaces between them.
RECURSIVE Repeat(_, _)
Repeat(w, n) == IF n = 0 THEN <<>> ELSE <<w>> \o Repeat(w, n - 1)

RECURSIVE JoinSpaces(_)
JoinSpaces(ws) ==
    IF Len(ws) = 0 THEN <<>>
    ELSE IF Len(ws) = 1 THEN <<ws[1]>>
    ELSE <<ws[1], " ">> \o JoinSpaces(Tail(ws))

\* phrase.split(' '): a word starts at every non-space that follows a space
\* or begins the string.
WordCount(s) ==
    Cardinality({i \in 1..Len(s) : s[i] # " " /\ (i = 1 \/ s[i - 1] = " ")})

\* ------------------------------------------------------------------ state
VARIABLES
    loggerInit,  \* a logger is installed (env_logger / android_logger)
    call,        \* the entry-point call that returned last: op, arguments, result
    ncalls,      \* calls that have returned so far
    budget,      \* calls the host makes in this run
    issued,      \* <<kind, handle>> of every handle a creating call returned
    cleaned,     \* <<kind, handle>> |-> how many times it was passed to a cleanup
    built,       \* builder handles for which cellBuilderBuild returned a cell
    acc,         \* handle |-> the bits cellBuilderStoreBytes accepted for it
    pc,          \* per caller thread: "idle" or "running"
    pending,     \* per caller thread: the call in flight
    solo,        \* the calls that ran with no other call in flight
    overlapped   \* the calls that ran while another call was in flight

threadVars == <<pc, pending, solo, overlapped>>
vars       == <<loggerInit, call, ncalls, budget, issued, cleaned, built, acc,
                pc, pending, solo, overlapped>>

\* The handles the host passes: every handle a creating call has returned so
\* far, whatever its kind, and 0, which no call returns.
Handles  == {0} \cup {p[2] : p \in issued}
\* The handle field of a call that takes no handle.
NoHandle == 0 - 1
Threads  == 1..MaxThreads

\* Arguments no entry point reads: one or two values each.
Endpoints == {"https://gql.example/graphql"}
Addresses == {"0:0000"}
Blobs     == {ByteArray(0, 0), ByteArray(1, MaxByte)}
AbiJsons  == {"{}", "not json"}
\* Arguments the claims are about.
DataLens   == {1, MaxDataBytes - 1, MaxDataBytes}
WordCounts == 0..MaxWordCount
Messages   == {ByteArray(1, b) : b \in 0..MaxByte}
PublicKeys == {ByteArray(32, b) : b \in {0, MaxByte}}
Signatures == {ByteArray(64, b) : b \in {0, MaxByte}}
SigIds     == 0..MaxSigId

NoCall == [op |-> "none", h |-> NoHandle, a |-> <<>>, ok |-> TRUE, ret |-> JVoid]

\* The library as loaded, no call made yet.
Loaded ==
    /\ loggerInit = FALSE
    /\ call = NoCall
    /\ ncalls = 0
    /\ issued = {}
    /\ cleaned = <<>>
    /\ built = {}
    /\ acc = <<>>
    /\ pc = [t \in Threads |-> "idle"]
    /\ pending = [t \in Threads |-> [c |-> NoCall, ov |-> FALSE]]
    /\ solo = {}
    /\ overlapped = {}

Init        == Loaded /\ budget = MaxCalls
InitHandles == Loaded /\ budget = MaxHandleCalls
InitThreads == Loaded /\ budget = MaxThreadCalls

\* The kind of resource a creating entry point hands out.
KindOf(op) ==
    CASE op \in {"createGqlTransport", "createJrpcTransport"} -> "Transport"
      [] op = "parseAbi" -> "Abi"
      [] op \in {"cellFromBoc", "cellBuilderBuild"} -> "Cell"
      [] op = "createCellBuilder" -> "CellBuilder"

\* The bits the accepted appends to h add up to.
AccOf(h) == IF h \in DOMAIN acc THEN acc[h] ELSE 0
\* How many times the resource k = <<kind, handle>> was passed to its cleanup.
CleanedTimes(k) == IF k \in DOMAIN cleaned THEN cleaned[k] ELSE 0

\* f with x mapped to v.
Put(f, x, v) == [y \in DOMAIN f \cup {x} |-> IF y = x THEN v ELSE f[y]]

\* ------------------------------------------ the entry points' return values
initializeResult == JBoolean(TRUE)

\* env!("CARGO_PKG_VERSION"): the crate's version, fixed at compile time.
getVersionResult(ok) == NewStringOrNull(ok, "CARGO_PKG_VERSION")

GqlTransportHandle  == 1
JrpcTransportHandle == 2
AbiHandle           == 3
CellFromBocHandle   == 4
CellBuilderHandle   == 5
BuiltCellHandle     == 6

createGqlTransportResult(endpoint)  == JLong(GqlTransportHandle)
createJrpcTransportResult(endpoint) == JLong(JrpcTransportHandle)

sendExternalMessageResult(transport_handle, ok) ==
    NewStringOrNull(ok, "Message sent successfully (placeholder)")

\* getContractState with .unwrap() in place of the match on the JNI result.
getContractStateResult_unwrap(transport_handle, ok) ==
    IF ok THEN JByteArr("{\"balance\":\"0\",\"isDeployed\":false}") ELSE Panic

getContractStateResult(transport_handle, ok) ==
    ByteArrayOrNull(ok, "{\"balance\":\"0\",\"isDeployed\":false}")

getTransactionsResult(transport_handle, ok) == ByteArrayOrNull(ok, "[]")

cleanupTransportResult(transport_handle) == JVoid

\* rand::thread_rng().fill_bytes(&mut secret_bytes): any 32 bytes (the
\* thread's generator is taken to be seeded).
SecretBytes == {ByteArray(32, b) : b \in 0..MaxByte}

generateKeyPairResult(random, ok) == ByteArrayOrNull(ok, random)

publicKeyFromSecretResult(secret_bytes, ok) == ByteArrayOrNull(ok, ByteArray(32, 0))

signDataResult(secret_bytes, data, signature_id, ok) ==
    ByteArrayOrNull(ok, ByteArray(64, 0))

verifySignatureResult(public_bytes, data, signature_bytes, signature_id) ==
    JBoolean(TRUE)

Phrase12 == JoinSpaces(Repeat("abandon", 11) \o <<"about">>)
Phrase15 == JoinSpaces(Repeat("abandon", 14) \o <<"about">>)
Phrase18 == JoinSpaces(Repeat("abandon", 17) \o <<"about">>)
Phrase21 == JoinSpaces(Repeat("abandon", 20) \o <<"about">>)
Phrase24 == JoinSpaces(Repeat("abandon", 23) \o <<"about">>)

generateBip39MnemonicPhrase(word_count) ==
    CASE word_count = 12 -> Phrase12
      [] word_count = 15 -> Phrase15
      [] word_count = 18 -> Phrase18
      [] word_count = 21 -> Phrase21
      [] word_count = 24 -> Phrase24
      [] OTHER -> Phrase12

generateBip39MnemonicResult(word_count, ok) ==
    NewStringOrNull(ok, generateBip39MnemonicPhrase(word_count))

deriveBip39KeyPairResult(phrase, path, ok) == ByteArrayOrNull(ok, ByteArray(32, 0))

parseAbiResult(abi_json) == JLong(AbiHandle)

getAbiVersionResult(abi_handle, ok) == NewStringOrNull(ok, "2")

getAbiFunctionNamesResult(abi_handle, ok) ==
    ByteArrayOrNull(ok, "[\"constructor\",\"getDetails\"]")

encodeFunctionCallResult(abi_handle, ok) == ByteArrayOrNull(ok, ByteArray(1, 0))

decodeFunctionOutputResult(abi_handle, ok) ==
    NewStringOrNull(ok, "{\"result\": \"placeholder\"}")

\* cleanupAbi that removes the handle's entry and unwraps the removed value.
cleanupAbiResult_unwrap(abi_handle) ==
    IF <<"Abi", abi_handle>> \in issued /\ CleanedTimes(<<"Abi", abi_handle>>) = 0
    THEN JVoid
    ELSE Panic

cleanupAbiResult(abi_handle) == JVoid

parseAddressResult(address_str, ok) == ByteArrayOrNull(ok, ByteArray(32, 0))

formatAddressResult(address_bytes, ok) == NewStringOrNull(ok, "placeholder_address")

cellFromBocResult(boc_bytes) == JLong(CellFromBocHandle)

cellToBocResult(cell_handle, ok) == ByteArrayOrNull(ok, ByteArray(1, 0))

getCellHashResult(cell_handle, ok) == ByteArrayOrNull(ok, ByteArray(32, 0))

createCellBuilderResult == JLong(CellBuilderHandle)

cellBuilderStoreBytesResult(builder_handle, data) == JBoolean(TRUE)

\* cellBuilderBuild that reads the builder while createCellBuilder, running on
\* another thread, has not finished creating it.
cellBuilderBuildResult_racy(builder_handle) ==
    IF \E t \in DOMAIN pc : pc[t] = "running" /\ pending[t].c.op = "createCellBuilder"
    THEN JLong(0)
    ELSE JLong(BuiltCellHandle)

cellBuilderBuildResult(builder_handle) == JLong(BuiltCellHandle)

\* The host's record of the calls made, after op(h, a) returned ret.
Record(op, h, a, ret) ==
    /\ issued' =
          IF op \in {"createGqlTransport", "createJrpcTransport", "parseAbi",
                     "cellFromBoc", "createCellBuilder", "cellBuilderBuild"}
             /\ ~Failed(ret)
          THEN issued \cup {<<KindOf(op), ret[2]>>}
          ELSE issued
    /\ cleaned' =
          CASE op = "cleanupTransport" ->
                   Put(cleaned, <<"Transport", h>>, CleanedTimes(<<"Transport", h>>) + 1)
            [] op = "cleanupAbi" ->
                   Put(cleaned, <<"Abi", h>>, CleanedTimes(<<"Abi", h>>) + 1)
            [] OTHER -> cleaned
    /\ built' = IF op = "cellBuilderBuild" /\ ~Failed(ret) THEN built \cup {h} ELSE built
    /\ acc' =
          IF op = "cellBuilderStoreBytes" /\ ~Failed(ret)
          THEN Put(acc, h, AccOf(h) + 8 * Len(a[1]))
          ELSE acc

\* The host takes the return of one call: op(h, a) returned ret, the call's JNI
\* allocation having succeeded or not (ok).
Returns(op, h, a, ok, ret) ==
    /\ ncalls < budget
    /\ ncalls' = ncalls + 1
    /\ call' = [op |-> op, h |-> h, a |-> a, ok |-> ok, ret |-> ret]
    /\ Record(op, h, a, ret)
    /\ UNCHANGED <<budget, threadVars>>

\* ------------------------------------------------- the entry points, called
\* lib.rs 5-23
initialize ==
    /\ Returns("initialize", NoHandle, <<>>, TRUE, initializeResult)
    /\ loggerInit' = TRUE

\* lib.rs 25-35
getVersion ==
    \E ok \in BOOLEAN :
        /\ Returns("getVersion", NoHandle, <<>>, ok, getVersionResult(ok))
        /\ UNCHANGED loggerInit

\* lib.rs 37-42
cleanup ==
    /\ Returns("cleanup", NoHandle, <<>>, TRUE, JVoid)
        /\ UNCHANGED loggerInit

\* lib.rs 44-51
createGqlTransport ==
    \E endpoint \in Endpoints :
        LET ret == createGqlTransportResult(endpoint) IN
        /\ Returns("createGqlTransport", NoHandle, <<endpoint>>, TRUE, ret)
        /\ UNCHANGED loggerInit

\* lib.rs 53-60
createJrpcTransport ==
    \E endpoint \in Endpoints :
        LET ret == createJrpcTransportResult(endpoint) IN
        /\ Returns("createJrpcTransport", NoHandle, <<endpoint>>, TRUE, ret)
        /\ UNCHANGED loggerInit

\* lib.rs 62-74
sendExternalMessage ==
    \E h \in Handles, message_boc \in Blobs, ok \in BOOLEAN :
        /\ Returns("sendExternalMessage", h, <<message_boc>>, ok,
                   sendExternalMessageResult(h, ok))
        /\ UNCHANGED loggerInit

\* lib.rs 76-90
getContractState ==
    \E h \in Handles, address \in Addresses, ok \in BOOLEAN :
        /\ Returns("getContractState", h, <<address>>, ok,
                   getContractStateResult(h, ok))
        /\ UNCHANGED loggerInit

\* lib.rs 92-108
getTransactions ==
    \E h \in Handles, address \in Addresses, ok \in BOOLEAN :
        /\ Returns("getTransactions", h, <<address, 0, 1>>, ok,
                   getTransactionsResult(h, ok))
        /\ UNCHANGED loggerInit

\* lib.rs 110-116
cleanupTransport ==
    \E h \in Handles :
        /\ Returns("cleanupTransport", h, <<>>, TRUE, cleanupTransportResult(h))
        /\ UNCHANGED loggerInit

\* lib.rs 118-131
generateKeyPair ==
    \E random \in SecretBytes, ok \in BOOLEAN :
        /\ Returns("generateKeyPair", NoHandle, <<>>, ok,
                   generateKeyPairResult(random, ok))
        /\ UNCHANGED loggerInit

\* lib.rs 133-145
publicKeyFromSecret ==
    \E secret \in SecretBytes, ok \in BOOLEAN :
        /\ Returns("publicKeyFromSecret", NoHandle, <<secret>>, ok,
                   publicKeyFromSecretResult(secret, ok))
        /\ UNCHANGED loggerInit

\* lib.rs 147-161
signData ==
    \E secret \in SecretBytes, data \in Messages, id \in SigIds, ok \in BOOLEAN :
        /\ Returns("signData", NoHandle, <<secret, data, id>>, ok,
                   signDataResult(secret, data, id, ok))
        /\ UNCHANGED loggerInit

\* lib.rs 163-173
verifySignature ==
    \E public \in PublicKeys, data \in Messages, sig \in Signatures, id \in SigIds :
        /\ Returns("verifySignature", NoHandle, <<public, data, sig, id>>, TRUE,
                   verifySignatureResult(public, data, sig, id))
        /\ UNCHANGED loggerInit

\* lib.rs 175-194
generateBip39Mnemonic ==
    \E word_count \in WordCounts, ok \in BOOLEAN :
        /\ Returns("generateBip39Mnemonic", NoHandle, <<word_count>>, ok,
                   generateBip39MnemonicResult(word_count, ok))
        /\ UNCHANGED loggerInit

\* lib.rs 196-209
deriveBip39KeyPair ==
    \E word_count \in {12, 24}, ok \in BOOLEAN :
        LET phrase == generateBip39MnemonicPhrase(word_count) IN
        /\ Returns("deriveBip39KeyPair", NoHandle, <<phrase, "m/44'/396'/0'/0/0">>, ok,
                   deriveBip39KeyPairResult(phrase, "m/44'/396'/0'/0/0", ok))
        /\ UNCHANGED loggerInit

\* lib.rs 211-218
parseAbi ==
    \E abi_json \in AbiJsons :
        LET ret == parseAbiResult(abi_json) IN
        /\ Returns("parseAbi", NoHandle, <<abi_json>>, TRUE, ret)
        /\ UNCHANGED loggerInit

\* lib.rs 220-230
getAbiVersion ==
    \E h \in Handles, ok \in BOOLEAN :
        /\ Returns("getAbiVersion", h, <<>>, ok, getAbiVersionResult(h, ok))
        /\ UNCHANGED loggerInit

\* lib.rs 232-245
getAbiFunctionNames ==
    \E h \in Handles, ok \in BOOLEAN :
        /\ Returns("getAbiFunctionNames", h, <<>>, ok, getAbiFunctionNamesResult(h, ok))
        /\ UNCHANGED loggerInit

\* lib.rs 247-261
encodeFunctionCall ==
    \E h \in Handles, ok \in BOOLEAN :
        /\ Returns("encodeFunctionCall", h, <<"getDetails", "{}">>, ok,
                   encodeFunctionCallResult(h, ok))
        /\ UNCHANGED loggerInit

\* lib.rs 263-277
decodeFunctionOutput ==
    \E h \in Handles, output_boc \in Blobs, ok \in BOOLEAN :
        /\ Returns("decodeFunctionOutput", h, <<"getDetails", output_boc>>, ok,
                   decodeFunctionOutputResult(h, ok))
        /\ UNCHANGED loggerInit

\* lib.rs 279-285
cleanupAbi ==
    \E h \in Handles :
        /\ Returns("cleanupAbi", h, <<>>, TRUE, cleanupAbiResult(h))
        /\ UNCHANGED loggerInit

\* lib.rs 287-298
parseAddress ==
    \E address_str \in Addresses, ok \in BOOLEAN :
        /\ Returns("parseAddress", NoHandle, <<address_str>>, ok,
                   parseAddressResult(address_str, ok))
        /\ UNCHANGED loggerInit

\* lib.rs 300-314
formatAddress ==
    \E address_bytes \in PublicKeys, ok \in BOOLEAN :
        /\ Returns("formatAddress", NoHandle,
                   <<address_bytes, TRUE, TRUE, FALSE, TRUE>>, ok,
                   formatAddressResult(address_bytes, ok))
        /\ UNCHANGED loggerInit

\* lib.rs 316-323
cellFromBoc ==
    \E boc_bytes \in Blobs :
        LET ret == cellFromBocResult(boc_bytes) IN
        /\ Returns("cellFromBoc", NoHandle, <<boc_bytes>>, TRUE, ret)
        /\ UNCHANGED loggerInit

\* lib.rs 325-336
cellToBoc ==
    \E h \in Handles, ok \in BOOLEAN :
        /\ Returns("cellToBoc", h, <<>>, ok, cellToBocResult(h, ok))
        /\ UNCHANGED loggerInit

\* lib.rs 338-349
getCellHash ==
    \E h \in Handles, ok \in BOOLEAN :
        /\ Returns("getCellHash", h, <<>>, ok, getCellHashResult(h, ok))
        /\ UNCHANGED loggerInit

\* lib.rs 351-357
createCellBuilder ==
    LET ret == createCellBuilderResult IN
    /\ Returns("createCellBuilder", NoHandle, <<>>, TRUE, ret)
        /\ UNCHANGED loggerInit

\* lib.rs 359-367
cellBuilderStoreBytes ==
    \E h \in Handles, n \in DataLens :
        LET data == ByteArray(n, 0)
            ret  == cellBuilderStoreBytesResult(h, data) IN
        /\ Returns("cellBuilderStoreBytes", h, <<data>>, TRUE, ret)
        /\ UNCHANGED loggerInit

\* lib.rs 369-376
cellBuilderBuild ==
    \E h \in Handles :
        LET ret == cellBuilderBuildResult(h) IN
        /\ Returns("cellBuilderBuild", h, <<>>, TRUE, ret)
        /\ UNCHANGED loggerInit

\* The entry points of the handle API and of the library's lifecycle.
NextHandles ==
    \/ initialize
    \/ cleanup
    \/ createGqlTransport
    \/ createJrpcTransport
    \/ sendExternalMessage
    \/ getContractState
    \/ getTransactions
    \/ cleanupTransport
    \/ parseAbi
    \/ getAbiVersion
    \/ getAbiFunctionNames
    \/ encodeFunctionCall
    \/ decodeFunctionOutput
    \/ cleanupAbi
    \/ cellFromBoc
    \/ cellToBoc
    \/ getCellHash
    \/ createCellBuilder
    \/ cellBuilderStoreBytes
    \/ cellBuilderBuild

\* The entry points that take no handle.
NextPure ==
    \/ getVersion
    \/ generateKeyPair
    \/ publicKeyFromSecret
    \/ signData
    \/ verifySignature
    \/ generateBip39Mnemonic
    \/ deriveBip39KeyPair
    \/ parseAddress
    \/ formatAddress

Next == NextHandles \/ NextPure

\* One host thread calling any entry point.
Spec == Init /\ [][Next]_vars

\* One host thread calling the handle API.
SpecHandles == InitHandles /\ [][NextHandles]_vars

\* ------------------------------------------------------ concurrent callers
\* The host runtime may enter the library from any thread.  No entry point
\* takes a lock or reads memory another call writes; the one access to
\* process-wide state is the logger installation in initialize(), which the
\* logging facade performs as a single compare-and-swap.  A call is therefore
\* an invocation, which fixes its arguments, and one atomic step that runs the
\* body and returns.

\* What the entry point op returns for handle h, arguments a and JNI outcome ok.
EntryPoint(op, h, a, ok) ==
    CASE op = "initialize"            -> initializeResult
      [] op = "cleanup"               -> JVoid
      [] op = "createGqlTransport"    -> createGqlTransportResult(a[1])
      [] op = "createJrpcTransport"   -> createJrpcTransportResult(a[1])
      [] op = "sendExternalMessage"   -> sendExternalMessageResult(h, ok)
      [] op = "getContractState"      -> getContractStateResult(h, ok)
      [] op = "getTransactions"       -> getTransactionsResult(h, ok)
      [] op = "cleanupTransport"      -> cleanupTransportResult(h)
      [] op = "parseAbi"              -> parseAbiResult(a[1])
      [] op = "getAbiVersion"         -> getAbiVersionResult(h, ok)
      [] op = "getAbiFunctionNames"   -> getAbiFunctionNamesResult(h, ok)
      [] op = "encodeFunctionCall"    -> encodeFunctionCallResult(h, ok)
      [] op = "decodeFunctionOutput"  -> decodeFunctionOutputResult(h, ok)
      [] op = "cleanupAbi"            -> cleanupAbiResult(h)
      [] op = "cellFromBoc"           -> cellFromBocResult(a[1])
      [] op = "cellToBoc"             -> cellToBocResult(h, ok)
      [] op = "getCellHash"           -> getCellHashResult(h, ok)
      [] op = "createCellBuilder"     -> createCellBuilderResult
      [] op = "cellBuilderStoreBytes" -> cellBuilderStoreBytesResult(h, a[1])
      [] op = "cellBuilderBuild"      -> cellBuilderBuildResult(h)

\* The calls a thread may make: initialize() and the cell API, the part of the
\* handle API with creating, using and consuming calls.
Offered ==
    LET C(op, h, a, ok) == [op |-> op, h |-> h, a |-> a, ok |-> ok, ret |-> JVoid] IN
    {C(op, NoHandle, <<>>, TRUE) : op \in {"initialize", "createCellBuilder"}}
    \cup {C("cellFromBoc", NoHandle, <<ByteArray(1, 0)>>, TRUE)}
    \cup {C(op, h, <<>>, ok) :
              op \in {"cellToBoc", "getCellHash"}, h \in Handles, ok \in BOOLEAN}
    \cup {C("cellBuilderStoreBytes", h, <<ByteArray(1, 0)>>, TRUE) : h \in Handles}
    \cup {C("cellBuilderBuild", h, <<>>, TRUE) : h \in Handles}

Running == {t \in Threads : pc[t] = "running"}

\* Thread t enters an entry point; the calls already in flight now overlap it.
Invoke(t) ==
    /\ pc[t] = "idle"
    /\ ncalls + Cardinality(Running) < budget
    /\ \E c \in Offered :
          pending' = [u \in Threads |->
                         IF u = t THEN [c |-> c, ov |-> Running # {}]
                         ELSE IF u \in Running THEN [pending[u] EXCEPT !.ov = TRUE]
                         ELSE pending[u]]
    /\ pc' = [pc EXCEPT ![t] = "running"]
    /\ UNCHANGED <<loggerInit, call, ncalls, budget, issued, cleaned, built, acc,
                   solo, overlapped>>

\* Thread t's call runs and returns.
Return(t) ==
    /\ pc[t] = "running"
    /\ LET c    == pending[t].c
           ret  == EntryPoint(c.op, c.h, c.a, c.ok)
           done == [c EXCEPT !.ret = ret] IN
       /\ call' = done
       /\ Record(c.op, c.h, c.a, ret)
       /\ loggerInit' = IF c.op = "initialize" THEN TRUE ELSE loggerInit
       /\ solo' = IF pending[t].ov THEN solo ELSE solo \cup {done}
       /\ overlapped' = IF pending[t].ov THEN overlapped \cup {done} ELSE overlapped
    /\ ncalls' = ncalls + 1
    /\ pc' = [pc EXCEPT ![t] = "idle"]
    /\ pending' = [pending EXCEPT ![t] = [c |-> NoCall, ov |-> FALSE]]
    /\ UNCHANGED budget

NextThreads == \E t \in Threads : Invoke(t) \/ Return(t)

\* Several host threads calling the handle API.
SpecThreads == InitThreads /\ [][NextThreads]_vars

\* ------------------------------------------------------------ the claims
Creators == {"createGqlTransport", "createJrpcTransport", "parseAbi",
             "cellFromBoc", "createCellBuilder", "cellBuilderBuild"}
TransportUses == {"sendExternalMessage", "getContractState", "getTransactions"}
AbiUses == {"getAbiVersion", "getAbiFunctionNames", "encodeFunctionCall",
            "decodeFunctionOutput"}
Cleanups == {"cleanup", "cleanupTransport", "cleanupAbi"}

\* A step in which the host took the return of a call to one of ops.
Called(ops) == ncalls' = ncalls + 1 /\ call'.op \in ops

\* C1: every creating call returns a handle value that no creating call has
\* returned before, cleanup calls in between or not.
C1_FreshHandles ==
    [][Called(Creators) => \A p \in issued : p[2] # call'.ret[2]]_vars

\* C2: once cleanupTransport(h) (cleanupAbi(h)) has been called on a handle h
\* that createGqlTransport or createJrpcTransport (parseAbi) returned, every
\* later transport (ABI) operation on h returns the failure marker.
C2_UseAfterCleanupFails ==
    /\ (call.op \in TransportUses /\ <<"Transport", call.h>> \in issued
            /\ CleanedTimes(<<"Transport", call.h>>) > 0)
           => Failed(call.ret)
    /\ (call.op \in AbiUses /\ <<"Abi", call.h>> \in issued
            /\ CleanedTimes(<<"Abi", call.h>>) > 0)
           => Failed(call.ret)

\* C3: after cellBuilderBuild(b) returned a cell for a builder b, every later
\* cellBuilderStoreBytes(b, _) returns false and every later cellBuilderBuild(b)
\* fails.
C3_BuildConsumesBuilder ==
    [][/\ (Called({"cellBuilderStoreBytes"}) /\ call'.h \in built
               /\ <<"CellBuilder", call'.h>> \in issued)
              => call'.ret = JBoolean(FALSE)
       /\ (Called({"cellBuilderBuild"}) /\ call'.h \in built
               /\ <<"CellBuilder", call'.h>> \in issued)
              => Failed(call'.ret)]_vars

\* C4: an operation expecting an ABI (transport) handle fails on every handle
\* that was not created as an ABI (transport) handle, a live handle of another
\* kind included.
C4_KindsNotInterchangeable ==
    /\ (call.op \in AbiUses /\ <<"Abi", call.h>> \notin issued)
           => Failed(call.ret)
    /\ (call.op \in TransportUses /\ <<"Transport", call.h>> \notin issued)
           => Failed(call.ret)

\* The maximum bit-length of a cell (1023 bits).
MaxCellBits == 1023

\* C5: an append that would take a builder's accumulated bit-length over the
\* maximum returns false and leaves the accumulated content as it was; the
\* accumulated bit-length never exceeds the maximum.
C5_OverflowRejected ==
    [][Called({"cellBuilderStoreBytes"}) /\ <<"CellBuilder", call'.h>> \in issued
          => /\ AccOf(call'.h) + 8 * Len(call'.a[1]) > MaxCellBits
                    => call'.ret = JBoolean(FALSE) /\ acc' = acc
             /\ (call'.h \in DOMAIN acc' => acc'[call'.h] <= MaxCellBits)]_vars

SupportedWordCounts == {12, 15, 18, 21, 24}

\* C7: generateBip39Mnemonic(n) yields exactly n space-separated words for n in
\* {12, 15, 18, 21, 24}, and the failure marker for every other n.
C7_MnemonicWordCount ==
    call.op = "generateBip39Mnemonic" =>
        IF call.a[1] \in SupportedWordCounts
        THEN call.ok => (call.ret[1] = "jstring" /\ WordCount(call.ret[2]) = call.a[1])
        ELSE Failed(call.ret)

\* C8: verifySignature(publicKeyFromSecret(s), d, signData(s, d0, i0), i) is
\* true when d = d0 and i = i0, and false when the data or the signature id
\* differs from the signed one.
C8_SignatureCorrectness ==
    call.op = "verifySignature" =>
        \A s \in SecretBytes, d0 \in Messages, i0 \in SigIds :
            (/\ call.a[1] = publicKeyFromSecretResult(s, TRUE)[2]
             /\ call.a[3] = signDataResult(s, d0, i0, TRUE)[2])
                => (call.ret = JBoolean(TRUE) <=> (call.a[2] = d0 /\ call.a[4] = i0))

StringOps == {"getVersion", "sendExternalMessage", "generateBip39Mnemonic",
              "getAbiVersion", "decodeFunctionOutput", "formatAddress"}
ByteArrayOps == {"getContractState", "getTransactions", "generateKeyPair",
                 "publicKeyFromSecret", "signData", "deriveBip39KeyPair",
                 "getAbiFunctionNames", "encodeFunctionCall", "parseAddress",
                 "cellToBoc", "getCellHash"}
BooleanOps == {"initialize", "verifySignature", "cellBuilderStoreBytes"}

\* C10: no call leaves an entry point by a panic; a string- or byte-array-
\* returning entry point returns its result object, or null exactly when the
\* JNI could not produce the object; a boolean-returning one returns true or
\* false.
C10_FailureByReturnValue ==
    /\ ~IsPanic(call.ret)
    /\ call.op \in StringOps =>
           IF call.ok THEN call.ret[1] = "jstring" ELSE IsNull(call.ret)
    /\ call.op \in ByteArrayOps =>
           IF call.ok THEN call.ret[1] = "jbyteArray" ELSE IsNull(call.ret)
    /\ call.op \in BooleanOps =>
           call.ret[1] = "jboolean" /\ call.ret[2] \in BOOLEAN

\* getContractState returned null because the byte array could not be allocated,
\* after a transport was created.
C10_Witness ==
    /\ call.op = "getContractState"
    /\ ~call.ok
    /\ IsNull(call.ret)
    /\ <<"Transport", call.h>> \in issued

\* The result of a handle-taking query on handle h.
QueryResult(op, h, ok) ==
    CASE op = "sendExternalMessage"  -> sendExternalMessageResult(h, ok)
      [] op = "getContractState"     -> getContractStateResult(h, ok)
      [] op = "getTransactions"      -> getTransactionsResult(h, ok)
      [] op = "getAbiVersion"        -> getAbiVersionResult(h, ok)
      [] op = "getAbiFunctionNames"  -> getAbiFunctionNamesResult(h, ok)
      [] op = "encodeFunctionCall"   -> encodeFunctionCallResult(h, ok)
      [] op = "decodeFunctionOutput" -> decodeFunctionOutputResult(h, ok)
      [] op = "cellToBoc"            -> cellToBocResult(h, ok)
      [] op = "getCellHash"          -> getCellHashResult(h, ok)

\* The queries that expect a handle of the given kind.
QueriesOf(kind) ==
    CASE kind = "Transport" -> TransportUses
      [] kind = "Abi"       -> AbiUses
      [] kind = "Cell"      -> {"cellToBoc", "getCellHash"}
      [] OTHER              -> {}

\* A created resource that has not been passed to its cleanup.
Live(k) == k \in issued /\ CleanedTimes(k) = 0

\* C6: every cleanup call (cleanup, cleanupTransport(h), cleanupAbi(h), on a
\* live, an unknown or an already cleaned handle) returns normally, and every
\* query on every other live handle gives the same result after it as before.
C6_CleanupFrame ==
    [][Called(Cleanups) =>
          /\ call'.ret = JVoid
          /\ \A k \in issued :
                (Live(k) /\ k[2] # call'.h) =>
                    \A op \in QueriesOf(k[1]), ok \in BOOLEAN :
                        QueryResult(op, k[2], ok)' = QueryResult(op, k[2], ok)]_vars

\* cleanupAbi has just returned for the second time on the same ABI handle,
\* while a transport is live.
C6_Witness ==
    /\ call.op = "cleanupAbi"
    /\ <<"Abi", call.h>> \in issued
    /\ CleanedTimes(<<"Abi", call.h>>) = 2
    /\ \E k \in issued : k[1] = "Transport" /\ Live(k)

\* The same call: the same entry point with the same arguments and the same
\* outcome of its JNI allocation.
SameCall(x, y) == x.op = y.op /\ x.h = y.h /\ x.a = y.a /\ x.ok = y.ok

====
